---- MODULE Spec2Model ----
(***************************************************************************)
(* Model of the AFWERX SBIR/STTR evaluator (single-file React component)   *)
(* and of the project page with its scoring endpoint.                      *)
(*                                                                         *)
(* JavaScript numbers are IEEE-754 doubles.  The score arithmetic is       *)
(* modelled bit-exactly: a double is a sign, a 53-bit mantissa and an      *)
(* exponent, every product and sum is rounded to nearest, ties to even.    *)
(* Mantissas do not fit TLC's integers, so naturals are kept as            *)
(* little-endian sequences of limbs.  The inputs of the model stay far     *)
(* from overflow, underflow, NaN and Infinity, which are not modelled.     *)
(***************************************************************************)
EXTENDS Integers, Sequences, FiniteSets, TLC

\* ---------------------------------------------------------------------
\* Naturals of any size: <<l1, l2, ...>> is l1 + l2*Base + ..., the last
\* limb non-zero; <<>> is 0.
\* ---------------------------------------------------------------------

RECURSIVE Pow2(_)
Pow2(k) == IF k = 0 THEN 1 ELSE 2 * Pow2(k - 1)

LimbBits == 15

Base == Pow2(LimbBits)

\* a double's mantissa has 53 bits
MantBits == 53

RECURSIVE BTrim(_)
BTrim(a) ==
  IF a = <<>> THEN <<>>
  ELSE IF a[Len(a)] = 0 THEN BTrim(SubSeq(a, 1, Len(a) - 1))
  ELSE a

RECURSIVE BFromInt(_)
BFromInt(n) == IF n = 0 THEN <<>> ELSE <<n % Base>> \o BFromInt(n \div Base)

RECURSIVE BToInt(_)
BToInt(a) == IF a = <<>> THEN 0 ELSE a[1] + Base * BToInt(Tail(a))

Limb(a, i) == IF i <= Len(a) THEN a[i] ELSE 0

LongerLen(a, b) == IF Len(a) >= Len(b) THEN Len(a) ELSE Len(b)

RECURSIVE BAddFrom(_, _, _, _)
BAddFrom(a, b, i, carry) ==
  IF i > LongerLen(a, b)
  THEN IF carry = 0 THEN <<>> ELSE <<carry>>
  ELSE LET s == Limb(a, i) + Limb(b, i) + carry
       IN  <<s % Base>> \o BAddFrom(a, b, i + 1, s \div Base)

BAdd(a, b) == BAddFrom(a, b, 1, 0)

\* a - b for a >= b
RECURSIVE BSubFrom(_, _, _, _)
BSubFrom(a, b, i, borrow) ==
  IF i > Len(a) THEN <<>>
  ELSE LET d == a[i] - Limb(b, i) - borrow
       IN  IF d < 0
           THEN <<d + Base>> \o BSubFrom(a, b, i + 1, 1)
           ELSE <<d>> \o BSubFrom(a, b, i + 1, 0)

BSub(a, b) == BTrim(BSubFrom(a, b, 1, 0))

\* -1, 0, 1 as a < b, a = b, a > b
RECURSIVE BCmpFrom(_, _, _)
BCmpFrom(a, b, i) ==
  IF i = 0 THEN 0
  ELSE IF a[i] < b[i] THEN -1
  ELSE IF a[i] > b[i] THEN 1
  ELSE BCmpFrom(a, b, i - 1)

BCmp(a, b) ==
  IF Len(a) < Len(b) THEN -1
  ELSE IF Len(a) > Len(b) THEN 1
  ELSE BCmpFrom(a, b, Len(a))

\* a * d for 0 <= d < Base
RECURSIVE BMulSmallFrom(_, _, _, _)
BMulSmallFrom(a, d, i, carry) ==
  IF i > Len(a)
  THEN IF carry = 0 THEN <<>> ELSE <<carry>>
  ELSE LET p == a[i] * d + carry
       IN  <<p % Base>> \o BMulSmallFrom(a, d, i + 1, p \div Base)

BMulSmall(a, d) == IF d = 0 THEN <<>> ELSE BMulSmallFrom(a, d, 1, 0)

Zeros(n) == [i \in 1..n |-> 0]

RECURSIVE BMulFrom(_, _, _)
BMulFrom(a, b, j) ==
  IF j > Len(b) THEN <<>>
  ELSE LET row == BMulSmall(a, b[j])
       IN  BAdd(IF row = <<>> THEN <<>> ELSE Zeros(j - 1) \o row,
                BMulFrom(a, b, j + 1))

BMul(a, b) == BMulFrom(a, b, 1)

\* <<quotient, remainder>> of a by d, 0 < d < Base: from the top limb down
RECURSIVE BDivSmallFrom(_, _, _, _)
BDivSmallFrom(a, d, i, rem) ==
  IF i = 0 THEN <<<<>>, rem>>
  ELSE LET cur  == rem * Base + a[i]
           rest == BDivSmallFrom(a, d, i - 1, cur % d)
       IN  <<rest[1] \o <<cur \div d>>, rest[2]>>

BDivSmall(a, d) ==
  LET r == BDivSmallFrom(a, d, Len(a), 0)
  IN  <<BTrim(r[1]), r[2]>>

\* a * 2^k and floor(a / 2^k)
BShl(a, k) ==
  IF a = <<>> THEN <<>>
  ELSE Zeros(k \div LimbBits) \o BMulSmall(a, Pow2(k % LimbBits))

BShr(a, k) ==
  LET q == k \div LimbBits
  IN  IF q >= Len(a) THEN <<>>
      ELSE BDivSmall(SubSeq(a, q + 1, Len(a)), Pow2(k % LimbBits))[1]

RECURSIVE IntBitLen(_)
IntBitLen(n) == IF n = 0 THEN 0 ELSE 1 + IntBitLen(n \div 2)

BBitLen(a) ==
  IF a = <<>> THEN 0 ELSE LimbBits * (Len(a) - 1) + IntBitLen(a[Len(a)])

BIsOdd(a) == a # <<>> /\ a[1] % 2 = 1

\* ---------------------------------------------------------------------
\* Doubles: [sign, man, exp] is (-1)^sign * man * 2^exp with man of
\* exactly MantBits bits; zero has man = <<>>.
\* ---------------------------------------------------------------------

DZero == [sign |-> 0, man |-> <<>>, exp |-> 0]

\* The double nearest to (-1)^sign * m * 2^e, ties to the even mantissa.
RoundToDouble(sign, m, e) ==
  LET len == BBitLen(m)
  IN  IF m = <<>> THEN DZero
      ELSE IF len <= MantBits
      THEN [sign |-> sign, man |-> BShl(m, MantBits - len), exp |-> e - (MantBits - len)]
      ELSE LET sh     == len - MantBits
               q2     == BShr(m, sh - 1)
               q      == BShr(q2, 1)
               sticky == BShl(q2, sh - 1) # m
               up     == BIsOdd(q2) /\ (sticky \/ BIsOdd(q))
               r      == IF up THEN BAdd(q, <<1>>) ELSE q
           IN  IF BBitLen(r) > MantBits
               THEN [sign |-> sign, man |-> BShr(r, 1), exp |-> e + sh + 1]
               ELSE [sign |-> sign, man |-> r, exp |-> e + sh]

\* a * b
DMul(a, b) ==
  IF a.man = <<>> \/ b.man = <<>> THEN DZero
  ELSE RoundToDouble((a.sign + b.sign) % 2, BMul(a.man, b.man), a.exp + b.exp)

\* a + b
DAdd(a, b) ==
  IF a.man = <<>> THEN b
  ELSE IF b.man = <<>> THEN a
  ELSE LET e  == IF a.exp <= b.exp THEN a.exp ELSE b.exp
           ma == BShl(a.man, a.exp - e)
           mb == BShl(b.man, b.exp - e)
           c  == BCmp(ma, mb)
       IN  IF a.sign = b.sign THEN RoundToDouble(a.sign, BAdd(ma, mb), e)
           ELSE IF c = 0 THEN DZero
           ELSE IF c > 0 THEN RoundToDouble(a.sign, BSub(ma, mb), e)
           ELSE RoundToDouble(b.sign, BSub(mb, ma), e)

\* The double a decimal literal num/den denotes (a number of the source, or
\* of a JSON document): the nearest one.  ExtraBits guard bits and a sticky
\* bit make the one rounding exact.
ExtraBits == 70

DecToDouble(num, den) ==
  LET sign == IF num < 0 THEN 1 ELSE 0
      mag  == IF num < 0 THEN -num ELSE num
      qr   == BDivSmall(BShl(BFromInt(mag), ExtraBits), den)
      m    == BAdd(BShl(qr[1], 1), IF qr[2] = 0 THEN <<>> ELSE <<1>>)
  IN  RoundToDouble(sign, m, -(ExtraBits + 1))

DOne == DecToDouble(1, 1)

\* a < 0, a > 1
DNegative(a) == a.man # <<>> /\ a.sign = 1

DAboveOne(a) == a.man # <<>> /\ a.sign = 0 /\ a.exp > -MantBits
                  /\ a # DOne

\* (+x.toFixed(1)) in tenths: the integer n with n/10 nearest to |x|, the larger
\* of two equally near, with x's sign.
ToTenths(x) ==
  IF x.man = <<>> THEN 0
  ELSE LET k == -x.exp
           n == BToInt(BShr(BAdd(BMulSmall(x.man, 20), BShl(<<1>>, k)), k + 1))
       IN  IF x.sign = 1 THEN -n ELSE n

\* ---------------------------------------------------------------------
\* Configuration documents.  Numbers with a fraction (the weights) are kept
\* as their decimal literal in hundredths; an optional number is
\* [present, value].
\* ---------------------------------------------------------------------

WeightScale == 100

WeightLiterals == -150..150

Some(v) == [present |-> TRUE, value |-> v]

None == [present |-> FALSE, value |-> 0]

\* a test for presence only: 0 counts as a cap
TruthyIfPresent(opt) == opt.present

\* JavaScript truthiness of an optional number: absent and 0 are falsy.
Truthy(opt) == opt.present /\ opt.value # 0

Crit(id, weight) == [id |-> id, weight |-> weight]

Cat(id, weight, criteria) == [id |-> id, weight |-> weight, criteria |-> criteria]

Mand(id, extractorKey, limit, required) ==
  [id |-> id, extractorKey |-> extractorKey, limit |-> limit, required |-> required]

ConfigFields == {"meta", "phasesSupported", "mandatory", "categories"}

DEFAULT_CONFIG ==
  [type |-> "object",
   fields |-> ConfigFields,
   meta |-> [name |-> "AFX25.5 Release 8 (Amendment 1)", version |-> "2025-05-22"],
   phasesSupported |-> <<"Phase I", "Phase II", "D2P2">>,
   costCapUSD |-> Some(1250000),
   maxPoPMonths |-> Some(21),
   techVolumeMaxPages |-> Some(15),
   mandatory |-> <<
     Mand("costCap", "cost_total", Some(1250000), TRUE),
     Mand("popCap", "pop_months", Some(21), TRUE),
     Mand("cmSigned", "cm_signed", None, TRUE),
     Mand("pages", "tv_pages", Some(15), TRUE),
     Mand("rcf", "rcf_present", None, TRUE) >>,
   categories |-> <<
     Cat("TECH", 45, <<Crit("tech_problem", 20), Crit("tech_approach", 35),
                       Crit("tech_risk", 15), Crit("tech_innov", 15), Crit("team", 15)>>),
     Cat("DEF_NEED", 35, <<Crit("mission_impact", 35), Crit("breadth", 20),
                           Crit("specificity", 30), Crit("docs", 15)>>),
     Cat("COMM", 20, <<Crit("market", 35), Crit("biz", 30),
                       Crit("interest", 20), Crit("docs_comm", 15)>>) >>]

DEFAULT_OUSDRE ==
  [type |-> "object",
   fields |-> {"version", "areas"},
   version |-> "2023-03-21",
   areas |-> <<"futureg", "trusted_ai", "bio", "acsw", "isc", "de", "hyp", "me",
               "inss", "quant", "space", "energy", "mat", "hmi">>]

\* ---------------------------------------------------------------------
\* The texts the model types into the two textareas, and JSON.parse of
\* each.  A text is named for what it holds.
\* ---------------------------------------------------------------------

\* JSON null; the other fields only give every document one shape
NullConfig ==
  [type |-> "null", fields |-> {},
   meta |-> [name |-> "", version |-> ""], phasesSupported |-> <<>>,
   costCapUSD |-> None, maxPoPMonths |-> None, techVolumeMaxPages |-> None,
   mandatory |-> <<>>, categories |-> <<>>]

\* {}
EmptyObjectConfig == [NullConfig EXCEPT !.type = "object"]

\* a rulepack whose gate is lax: costCap and rcf not required, no maxPoPMonths,
\* techVolumeMaxPages 0, and a required criterion "itar" the code does not know
RelaxedConfig ==
  [type |-> "object",
   fields |-> ConfigFields,
   meta |-> [name |-> "Relaxed", version |-> "1"],
   phasesSupported |-> <<"Phase I">>,
   costCapUSD |-> Some(1250000),
   maxPoPMonths |-> None,
   techVolumeMaxPages |-> Some(0),
   mandatory |-> <<
     Mand("costCap", "cost_total", Some(1250000), FALSE),
     Mand("popCap", "pop_months", Some(21), TRUE),
     Mand("pages", "tv_pages", Some(15), TRUE),
     Mand("itar", "cost_total", Some(1000), TRUE),
     Mand("rcf", "rcf_present", None, FALSE) >>,
   categories |-> << Cat("ONLY", 100, <<Crit("tech_risk", 60), Crit("team", 40)>>) >>]

\* the relaxed rulepack without its "categories" key
NoCategoriesConfig ==
  [RelaxedConfig EXCEPT !.fields = ConfigFields \ {"categories"}, !.categories = <<>>]

\* category weights 0.8 + 0.7, criterion weights 0.7 + 0.7 in the first
OverweightConfig ==
  [type |-> "object",
   fields |-> ConfigFields,
   meta |-> [name |-> "Overweight", version |-> "1"],
   phasesSupported |-> <<"Phase II">>,
   costCapUSD |-> None, maxPoPMonths |-> None, techVolumeMaxPages |-> None,
   mandatory |-> << Mand("cmSigned", "cm_signed", None, TRUE) >>,
   categories |-> <<
     Cat("A", 80, <<Crit("tech_risk", 70), Crit("team", 70)>>),
     Cat("B", 70, <<Crit("market", 100)>>) >>]

\* category weights 0.5 + 0.5; criterion weights 1.2 + 1.2 and 1 - 1.5
ClampedConfig ==
  [type |-> "object",
   fields |-> ConfigFields,
   meta |-> [name |-> "Clamped", version |-> "1"],
   phasesSupported |-> <<"Phase II">>,
   costCapUSD |-> None, maxPoPMonths |-> None, techVolumeMaxPages |-> None,
   mandatory |-> << Mand("cmSigned", "cm_signed", None, TRUE) >>,
   categories |-> <<
     Cat("X", 50, <<Crit("tech_risk", 120), Crit("team", 120)>>),
     Cat("Y", 50, <<Crit("team", 100), Crit("market", -150)>>) >>]

\* a negative category weight: -0.5 and 0.3
NegativeConfig ==
  [type |-> "object",
   fields |-> ConfigFields,
   meta |-> [name |-> "Negative", version |-> "1"],
   phasesSupported |-> <<"Phase II">>,
   costCapUSD |-> None, maxPoPMonths |-> None, techVolumeMaxPages |-> None,
   mandatory |-> << Mand("cmSigned", "cm_signed", None, TRUE) >>,
   categories |-> <<
     Cat("N", -50, <<Crit("tech_risk", 100)>>),
     Cat("P", 30, <<Crit("team", 100)>>) >>]

NullCatalog == [type |-> "null", fields |-> {}, version |-> "", areas |-> <<>>]

Catalog2025 ==
  [type |-> "object", fields |-> {"version", "areas"},
   version |-> "2025-01-15", areas |-> <<"trusted_ai", "quant", "space">>]

\* a catalog that has areas and no "version" key
NoVersionCatalog ==
  [type |-> "object", fields |-> {"areas"}, version |-> "", areas |-> <<"quant">>]

\* texts that are not JSON
MalformedTexts == {"truncated", ""}

GateTexts == {"default", "relaxed", "null", "empty_object", "no_categories", "truncated"}

ScoreTexts == {"default", "overweight", "clamped", "negative", ""}

ConfigTexts == GateTexts \cup ScoreTexts

CatalogTexts == {"default_catalog", "catalog_2025", "null", "truncated"}

Thrown == [ok |-> FALSE]

Parsed(v) == [ok |-> TRUE, value |-> v]

\* JSON.parse(configText): a SyntaxError or the value
ParseConfigText(t) ==
  CASE t \in MalformedTexts -> Thrown
    [] t = "default"        -> Parsed(DEFAULT_CONFIG)
    [] t = "relaxed"        -> Parsed(RelaxedConfig)
    [] t = "overweight"     -> Parsed(OverweightConfig)
    [] t = "clamped"        -> Parsed(ClampedConfig)
    [] t = "negative"       -> Parsed(NegativeConfig)
    [] t = "null"           -> Parsed(NullConfig)
    [] t = "empty_object"   -> Parsed(EmptyObjectConfig)
    [] t = "no_categories"  -> Parsed(NoCategoriesConfig)

\* JSON.parse(ousdreText)
ParseCatalogText(t) ==
  CASE t \in MalformedTexts  -> Thrown
    [] t = "default_catalog" -> Parsed(DEFAULT_OUSDRE)
    [] t = "catalog_2025"    -> Parsed(Catalog2025)
    [] t = "null"            -> Parsed(NullCatalog)
    [] t = "no_version"      -> Parsed(NoVersionCatalog)

\* ---------------------------------------------------------------------
\* Utility helpers
\* ---------------------------------------------------------------------

ratingOptions == {"Excellent", "Good", "Acceptable", "Marginal", "Poor"}

\* Math.max(0, n): the upper bound forgotten
clamp01NoUpper(n) == IF DNegative(n) THEN DZero ELSE n

clamp01(n) == IF DNegative(n) THEN DZero ELSE IF DAboveOne(n) THEN DOne ELSE n

\* the five numbers ratingToScore returns, as doubles
RatingScores ==
  [r \in ratingOptions |->
     CASE r = "Excellent"  -> DecToDouble(1, 1)
       [] r = "Good"       -> DecToDouble(8, 10)
       [] r = "Acceptable" -> DecToDouble(6, 10)
       [] r = "Marginal"   -> DecToDouble(4, 10)
       [] r = "Poor"       -> DecToDouble(2, 10)]

\* the table read upside down: Poor scores 1.0 and Excellent 0.2
ratingToScoreInverted(r) ==
  RatingScores[CASE r = "Excellent"  -> "Poor"
                 [] r = "Good"       -> "Marginal"
                 [] r = "Acceptable" -> "Acceptable"
                 [] r = "Marginal"   -> "Good"
                 [] r = "Poor"       -> "Excellent"]

ratingToScore(r) == RatingScores[r]

\* the double of every weight literal a document of the model holds
WeightDoubles == [w \in WeightLiterals |-> DecToDouble(w, WeightScale)]

NumberOf(w) == WeightDoubles[w]

Hundred == DecToDouble(100, 1)

\* the fallback rating, were it "Marginal"
RatingOfMarginal(rs, id) == IF id \in DOMAIN rs THEN rs[id] ELSE "Marginal"

\* ratings[c.id] || "Acceptable"
RatingOf(rs, id) == IF id \in DOMAIN rs THEN rs[id] ELSE "Acceptable"

\* the inner loop: catScore += ratingToScore(r) * c.weight
RECURSIVE CatScoreFrom(_, _, _, _)
CatScoreFrom(criteria, rs, i, catScore) ==
  IF i > Len(criteria) THEN catScore
  ELSE CatScoreFrom(criteria, rs, i + 1,
         DAdd(catScore, DMul(ratingToScore(RatingOf(rs, criteria[i].id)),
                             NumberOf(criteria[i].weight))))

\* the outer loop: total += clamp01(catScore) * cat.weight
RECURSIVE TotalFrom(_, _, _, _)
TotalFrom(categories, rs, i, total) ==
  IF i > Len(categories) THEN total
  ELSE TotalFrom(categories, rs, i + 1,
         DAdd(total, DMul(clamp01(CatScoreFrom(categories[i].criteria, rs, 1, DZero)),
                          NumberOf(categories[i].weight))))

\* +(total * 100).toFixed(1), in tenths
OverallScore(categories, rs) ==
  ToTenths(DMul(TotalFrom(categories, rs, 1, DZero), Hundred))

\* ---------------------------------------------------------------------
\* The evaluator (App): state
\* ---------------------------------------------------------------------

VARIABLES
  configText,        \* the solicitation textarea
  ousdreText,        \* the catalog textarea
  config,            \* the active SolicitationConfig
  ousdre,            \* the active OUSDRECatalog
  proposalMeta,      \* ProposalMetadata
  ratings,           \* Record<string, Rating>: criterion id -> rating
  overallScore,      \* useMemo: the score, in tenths
  mandatoryResults,  \* useMemo: criterion id -> satisfied
  disqualified,      \* useMemo
  alert,             \* the alert() box on screen, "none" when there is none
  crashed,           \* a render threw: React has unmounted the component
  phase,             \* the selected Phase
  milestones,        \* the milestone list, in order
  download           \* the last file offered for download: name and JSON text

\* The project page (ProjectPage) and the scoring endpoint (POST)
VARIABLES
  text,       \* the draft textarea
  scores,     \* null, or the list of items on screen
  loading,    \* the Evaluate button is disabled while true
  pageAlert,  \* the alert() box of the page, "none" when there is none
  calls,      \* the handleScore invocations so far, each with its position
  exchange    \* the last POST the endpoint handled: request body and outcome

pageVars == <<text, scores, loading, pageAlert, calls, exchange>>

inputVars == <<configText, ousdreText, config, ousdre, proposalMeta, ratings>>

derivedVars == <<overallScore, mandatoryResults, disqualified>>

planVars == <<phase, milestones, download>>

evalVars == <<inputVars, derivedVars, alert, crashed, planVars>>

NoAlert == "none"

Milestone(id, title, description, rdCentric, measurable, start, end) ==
  [id |-> id, title |-> title, description |-> description,
   rdCentric |-> rdCentric, measurable |-> measurable, start |-> start, end |-> end]

InitialMilestones ==
  << Milestone("m1", "M1: Architecture & Test Plan",
               "Baseline architecture, verification plan, KPIs.", TRUE, TRUE, "", ""),
     Milestone("m2", "M2: Prototype V1",
               "Alpha prototype with core feature set.", TRUE, TRUE, "", "") >>

\* no file yet: no name, and a document without keys
NoDownload == [name |-> "", json |-> [keys |-> {}, value |-> [k \in {} |-> ""]]]

InitialMeta ==
  [title |-> "", company |-> "", topicNumber |-> "",
   cmSigned |-> FALSE, tvPages |-> 0, popMonths |-> 0, costTotal |-> 0,
   rcfPresent |-> FALSE, fwaPresent |-> FALSE, vol7Present |-> FALSE, powOk |-> FALSE]

\* ---------------------------------------------------------------------
\* Derived values
\* ---------------------------------------------------------------------

KnownIds == {"costCap", "popCap", "pages", "cmSigned", "rcf"}

\* one pass of the loop body, were "let ok = true" "let ok = false"
CriterionOkFailClosed(m, cfg, meta) ==
  LET ok0 == FALSE
      ok1 == IF m.id = "costCap" /\ Truthy(cfg.costCapUSD)
             THEN meta.costTotal <= cfg.costCapUSD.value ELSE ok0
      ok2 == IF m.id = "popCap" /\ Truthy(cfg.maxPoPMonths)
             THEN meta.popMonths <= cfg.maxPoPMonths.value ELSE ok1
      ok3 == IF m.id = "pages" /\ Truthy(cfg.techVolumeMaxPages)
             THEN meta.tvPages <= cfg.techVolumeMaxPages.value ELSE ok2
      ok4 == IF m.id = "cmSigned" THEN meta.cmSigned ELSE ok3
      ok5 == IF m.id = "rcf" THEN meta.rcfPresent ELSE ok4
  IN  ok5

\* one pass of the loop body, were the comparisons "<" for "<="
CriterionOkStrict(m, cfg, meta) ==
  LET ok0 == TRUE
      ok1 == IF m.id = "costCap" /\ Truthy(cfg.costCapUSD)
             THEN meta.costTotal < cfg.costCapUSD.value ELSE ok0
      ok2 == IF m.id = "popCap" /\ Truthy(cfg.maxPoPMonths)
             THEN meta.popMonths < cfg.maxPoPMonths.value ELSE ok1
      ok3 == IF m.id = "pages" /\ Truthy(cfg.techVolumeMaxPages)
             THEN meta.tvPages < cfg.techVolumeMaxPages.value ELSE ok2
      ok4 == IF m.id = "cmSigned" THEN meta.cmSigned ELSE ok3
      ok5 == IF m.id = "rcf" THEN meta.rcfPresent ELSE ok4
  IN  ok5

\* one pass of the loop body, were the caps read from the criterion's own limit
CriterionOkByLimit(m, cfg, meta) ==
  LET ok0 == TRUE
      ok1 == IF m.id = "costCap" /\ Truthy(m.limit)
             THEN meta.costTotal <= m.limit.value ELSE ok0
      ok2 == IF m.id = "popCap" /\ Truthy(m.limit)
             THEN meta.popMonths <= m.limit.value ELSE ok1
      ok3 == IF m.id = "pages" /\ Truthy(m.limit)
             THEN meta.tvPages <= m.limit.value ELSE ok2
      ok4 == IF m.id = "cmSigned" THEN meta.cmSigned ELSE ok3
      ok5 == IF m.id = "rcf" THEN meta.rcfPresent ELSE ok4
  IN  ok5

\* one pass of the loop body: ok for mandatory criterion m

\* (typeof proposalMeta.x === "number" holds of every value the inputs set)
CriterionOk(m, cfg, meta) ==
  LET ok0 == TRUE
      ok1 == IF m.id = "costCap" /\ Truthy(cfg.costCapUSD)
             THEN meta.costTotal <= cfg.costCapUSD.value ELSE ok0
      ok2 == IF m.id = "popCap" /\ Truthy(cfg.maxPoPMonths)
             THEN meta.popMonths <= cfg.maxPoPMonths.value ELSE ok1
      ok3 == IF m.id = "pages" /\ Truthy(cfg.techVolumeMaxPages)
             THEN meta.tvPages <= cfg.techVolumeMaxPages.value ELSE ok2
      ok4 == IF m.id = "cmSigned" THEN meta.cmSigned ELSE ok3
      ok5 == IF m.id = "rcf" THEN meta.rcfPresent ELSE ok4
  IN  ok5

\* map[m.id] = ok, for each m in turn: a later entry overwrites an earlier one
RECURSIVE MandatoryFrom(_, _, _, _)
MandatoryFrom(cfg, meta, i, map) ==
  IF i > Len(cfg.mandatory) THEN map
  ELSE LET m == cfg.mandatory[i]
       IN  MandatoryFrom(cfg, meta, i + 1,
             [id \in DOMAIN map \cup {m.id} |->
                IF id = m.id THEN CriterionOk(m, cfg, meta) ELSE map[id]])

MandatoryResults(cfg, meta) == MandatoryFrom(cfg, meta, 1, <<>>)

\* the test without "m.required &&"
DisqualifiedAny(cfg, results) ==
  \E i \in DOMAIN cfg.mandatory : results[cfg.mandatory[i].id] = FALSE

\* config.mandatory.some((m) => m.required && mandatoryResults[m.id] === false)
Disqualified(cfg, results) ==
  \E i \in DOMAIN cfg.mandatory :
    cfg.mandatory[i].required /\ results[cfg.mandatory[i].id] = FALSE

\* The render reads config.categories, config.mandatory, config.meta.name,
\* config.phasesSupported and ousdre.areas: on null, or with one of them
\* missing, it throws a TypeError.  No error boundary catches it.
RenderThrows(cfg, cat) ==
  \/ cfg.type # "object"
  \/ ~(ConfigFields \subseteq cfg.fields)
  \/ cat.type # "object"
  \/ "areas" \notin cat.fields

\* a dependency list of overallScore without config.categories
ScoreDepsRatingsOnly == ratings' # ratings

\* [ratings, config.categories]
ScoreDepsChanged ==
  \/ ratings' # ratings
  \/ config'.categories # config.categories

\* [config.mandatory, config.costCapUSD, config.maxPoPMonths,
\*  config.pagePolicy, proposalMeta]
GateDepsChanged ==
  \/ config'.mandatory # config.mandatory
  \/ config'.costCapUSD # config.costCapUSD
  \/ config'.maxPoPMonths # config.maxPoPMonths
  \/ config'.techVolumeMaxPages # config.techVolumeMaxPages
  \/ proposalMeta' # proposalMeta

\* [config.mandatory, mandatoryResults]
FlagDepsChanged ==
  \/ config'.mandatory # config.mandatory
  \/ mandatoryResults' # mandatoryResults

\* a render that shows a score of 0 for a disqualified proposal
RenderScoreGated ==
  IF RenderThrows(config', ousdre')
  THEN /\ crashed' = TRUE
       /\ UNCHANGED derivedVars
  ELSE /\ crashed' = FALSE
       /\ mandatoryResults' = MandatoryResults(config', proposalMeta')
       /\ disqualified' = Disqualified(config', mandatoryResults')
       /\ overallScore' = IF disqualified' THEN 0
                          ELSE OverallScore(config'.categories, ratings')

\* The render after a state update: the memoized values whose inputs changed
\* are computed again; a render that throws unmounts the component.
Render ==
  IF RenderThrows(config', ousdre')
  THEN /\ crashed' = TRUE
       /\ UNCHANGED derivedVars
  ELSE /\ crashed' = FALSE
       /\ overallScore' =
            IF ScoreDepsChanged
            THEN OverallScore(config'.categories, ratings')
            ELSE overallScore
       /\ mandatoryResults' =
            IF GateDepsChanged
            THEN MandatoryResults(config', proposalMeta')
            ELSE mandatoryResults
       /\ disqualified' =
            IF FlagDepsChanged
            THEN Disqualified(config', mandatoryResults')
            ELSE disqualified

\* every handler needs the component on screen and no alert() box open
Ready == ~crashed /\ alert = NoAlert

\* ---------------------------------------------------------------------
\* Handlers
\* ---------------------------------------------------------------------

\* onChange of the solicitation textarea
SetConfigText(t) ==
  /\ Ready
  /\ configText' = t
  /\ UNCHANGED <<ousdreText, config, ousdre, proposalMeta, ratings, alert>>
  /\ Render
  /\ UNCHANGED <<pageVars, planVars>>

\* onChange of the catalog textarea
SetOusdReText(t) ==
  /\ Ready
  /\ ousdreText' = t
  /\ UNCHANGED <<configText, config, ousdre, proposalMeta, ratings, alert>>
  /\ Render
  /\ UNCHANGED <<pageVars, planVars>>

\* handleLoadConfig, were setConfig called before the parse is known to succeed
LoadConfigPartial(src, cfg) ==
  LET p == ParseConfigText(src)
  IN  IF p.ok THEN [config |-> p.value, alert |-> NoAlert]
      ELSE [config |-> NullConfig, alert |-> "Invalid solicitation JSON"]

\* handleLoadConfig, were a new rulepack to bring the default catalog back
handleLoadConfigResetsCatalog ==
  /\ Ready
  /\ LET p == ParseConfigText(configText)
     IN  IF p.ok
         THEN config' = p.value /\ ousdre' = DEFAULT_OUSDRE /\ alert' = NoAlert
         ELSE config' = config /\ ousdre' = ousdre /\ alert' = "Invalid solicitation JSON"
  /\ UNCHANGED <<configText, ousdreText, proposalMeta, ratings>>
  /\ Render
  /\ UNCHANGED <<pageVars, planVars>>

\* handleLoadConfig, were a new rulepack to start from an empty RatingSet
handleLoadConfigClearsRatings ==
  /\ Ready
  /\ LET p == ParseConfigText(configText)
     IN  IF p.ok
         THEN config' = p.value /\ ratings' = <<>> /\ alert' = NoAlert
         ELSE config' = config /\ ratings' = ratings /\ alert' = "Invalid solicitation JSON"
  /\ UNCHANGED <<configText, ousdreText, ousdre, proposalMeta>>
  /\ Render
  /\ UNCHANGED <<pageVars, planVars>>

\* what handleLoadConfig leaves: the new config and the alert
LoadConfigResult(src, cfg) ==
  LET p == ParseConfigText(src)
  IN  IF p.ok THEN [config |-> p.value, alert |-> NoAlert]
      ELSE [config |-> cfg, alert |-> "Invalid solicitation JSON"]

handleLoadConfig ==
  /\ Ready
  /\ LET r == LoadConfigResult(configText, config)
     IN  /\ config' = r.config
         /\ alert' = r.alert
  /\ UNCHANGED <<configText, ousdreText, ousdre, proposalMeta, ratings>>
  /\ Render
  /\ UNCHANGED <<pageVars, planVars>>

LoadCatalogResult(src, cat) ==
  LET p == ParseCatalogText(src)
  IN  IF p.ok THEN [ousdre |-> p.value, alert |-> NoAlert]
      ELSE [ousdre |-> cat, alert |-> "Invalid OUSD(R&E) JSON"]

handleLoadOUSDRE ==
  /\ Ready
  /\ LET r == LoadCatalogResult(ousdreText, ousdre)
     IN  /\ ousdre' = r.ousdre
         /\ alert' = r.alert
  /\ UNCHANGED <<configText, ousdreText, config, proposalMeta, ratings>>
  /\ Render
  /\ UNCHANGED <<pageVars, planVars>>

\* the user closes the alert() box; the handler that opened it returns
DismissAlert ==
  /\ ~crashed
  /\ alert # NoAlert
  /\ alert' = NoAlert
  /\ UNCHANGED <<inputVars, derivedVars, crashed>>
  /\ UNCHANGED <<pageVars, planVars>>

\* the onChange / onCheckedChange handlers of Proposal Setup:
\* setProposalMeta({...proposalMeta, [field]: v})
SetProposalMeta(field, v) ==
  /\ Ready
  /\ proposalMeta' = [proposalMeta EXCEPT ![field] = v]
  /\ UNCHANGED <<configText, ousdreText, config, ousdre, ratings, alert>>
  /\ Render
  /\ UNCHANGED <<pageVars, planVars>>

\* file names the model uploads, and the two tests handleFileChange makes
FileNames == {"tech_volume.pdf", "cost_volume3.xlsx", "tech_cost.pdf", "notes.txt"}

LooksLikeTechVolume(name) == name \in {"tech_volume.pdf", "tech_cost.pdf"}

LooksLikeCostVolume(name) == name \in {"cost_volume3.xlsx", "tech_cost.pdf"}

ExtractedPages == 14

ExtractedCost == 1180000

handleFileChange(name) ==
  /\ Ready
  /\ proposalMeta' =
       [proposalMeta EXCEPT
          !.tvPages = IF LooksLikeTechVolume(name) THEN ExtractedPages ELSE @,
          !.costTotal = IF LooksLikeCostVolume(name) THEN ExtractedCost ELSE @]
  /\ UNCHANGED <<configText, ousdreText, config, ousdre, ratings, alert>>
  /\ Render
  /\ UNCHANGED <<pageVars, planVars>>

\* the criteria the Evaluation Scoring card shows a Select for
CriterionIds(cfg) ==
  UNION {{cfg.categories[i].criteria[j].id : j \in DOMAIN cfg.categories[i].criteria} :
           i \in DOMAIN cfg.categories}

setRating(id, val) ==
  /\ Ready
  /\ ratings' = [k \in DOMAIN ratings \cup {id} |-> IF k = id THEN val ELSE ratings[k]]
  /\ UNCHANGED <<configText, ousdreText, config, ousdre, proposalMeta, alert>>
  /\ Render
  /\ UNCHANGED <<pageVars, planVars>>

\* onValueChange of the Phase select: setPhase(v)
setPhase(p) ==
  /\ Ready
  /\ phase' = p
  /\ UNCHANGED <<inputVars, derivedVars, alert, crashed, milestones, download>>
  /\ UNCHANGED pageVars

\* most milestones the model lets the list grow to
MaxMilestones == 3

\* the badge of a milestone, were the test "||"
MilestoneLabelEither(m) ==
  IF m.rdCentric \/ m.measurable THEN "Strong" ELSE "Needs Work"

\* the badge: (m.rdCentric && m.measurable) ? "Strong" : "Needs Work"
MilestoneLabel(m) ==
  IF m.rdCentric /\ m.measurable THEN "Strong" ELSE "Needs Work"

\* the new entry, were its id `m${ms.length}`
NewMilestoneLastId(n) ==
  Milestone("m" \o ToString(n), "M" \o ToString(n + 1) \o ": New Milestone",
            "", TRUE, FALSE, "", "")

\* the entry addMilestone builds for a list of length n
NewMilestone(n) ==
  Milestone("m" \o ToString(n + 1), "M" \o ToString(n + 1) \o ": New Milestone",
            "", TRUE, FALSE, "", "")

\* addMilestone, were the new entry put first: [new, ...ms]
addMilestoneFirst ==
  /\ Ready
  /\ Len(milestones) < MaxMilestones
  /\ milestones' = <<NewMilestone(Len(milestones))>> \o milestones
  /\ UNCHANGED <<inputVars, derivedVars, alert, crashed, phase, download>>
  /\ UNCHANGED pageVars

addMilestone ==
  /\ Ready
  /\ Len(milestones) < MaxMilestones
  /\ milestones' = Append(milestones, NewMilestone(Len(milestones)))
  /\ UNCHANGED <<inputVars, derivedVars, alert, crashed, phase, download>>
  /\ UNCHANGED pageVars

\* ms.map(x => x.id === id ? {...x, [field]: v} : x)
EditedMilestones(ms, id, field, v) ==
  [i \in DOMAIN ms |-> IF ms[i].id = id THEN [ms[i] EXCEPT ![field] = v] ELSE ms[i]]

\* the onChange / onCheckedChange handlers of the editor of milestone k
EditMilestone(k, field, v) ==
  /\ Ready
  /\ milestones' = EditedMilestones(milestones, milestones[k].id, field, v)
  /\ UNCHANGED <<inputVars, derivedVars, alert, crashed, phase, download>>
  /\ UNCHANGED pageVars

\* `readiness_${(proposalMeta.title || "proposal").replace(/\s+/g, '_')}.json`
\* for the titles the model enters
ReportName(title) ==
  CASE title = ""                    -> "readiness_proposal.json"
    [] title = "Autonomous ISR Mesh" -> "readiness_Autonomous_ISR_Mesh.json"

SnapshotKeys ==
  {"configMeta", "phase", "proposalMeta", "mandatoryResults", "disqualified",
   "ratings", "overallScore", "milestones", "ousdreVersion"}

\* a snapshot that takes the gate for passed
SnapshotGatePassed ==
  [configMeta |-> config.meta,
   phase |-> phase,
   proposalMeta |-> proposalMeta,
   mandatoryResults |-> mandatoryResults,
   disqualified |-> FALSE,
   ratings |-> ratings,
   overallScore |-> overallScore,
   milestones |-> milestones,
   ousdreVersion |-> ousdre.version]

\* const snapshot = {...}
Snapshot ==
  [configMeta |-> config.meta,
   phase |-> phase,
   proposalMeta |-> proposalMeta,
   mandatoryResults |-> mandatoryResults,
   disqualified |-> disqualified,
   ratings |-> ratings,
   overallScore |-> overallScore,
   milestones |-> milestones,
   ousdreVersion |-> ousdre.version]

\* JSON.stringify(snapshot, null, 2): a key whose value is undefined is left
\* out; every other value of the model is written as it is
Stringify(snapshot) ==
  [keys |-> IF "version" \in ousdre.fields THEN SnapshotKeys
            ELSE SnapshotKeys \ {"ousdreVersion"},
   value |-> snapshot]

\* onClick of Download JSON Snapshot
ExportSnapshot ==
  /\ Ready
  /\ download' = [name |-> ReportName(proposalMeta.title), json |-> Stringify(Snapshot)]
  /\ UNCHANGED <<inputVars, derivedVars, alert, crashed, phase, milestones>>
  /\ UNCHANGED pageVars

\* ---------------------------------------------------------------------
\* The scoring endpoint: POST(req)
\* ---------------------------------------------------------------------

\* request bodies: what req.text() gives, or "unreadable" when it rejects
Bodies ==
  {"text_object",    \* {"text": "..."}
   "empty_object",   \* {}
   "text_number",    \* {"text": 5}
   "",               \* no body
   "null",           \* JSON null
   "truncated",      \* not JSON
   "unreadable"}

\* what the completion call does
Upstreams ==
  {"items",          \* content is {"items": [...]}
   "no_items",       \* content is {}
   "null_content",   \* content is null
   "not_json",       \* content is not JSON
   "rejected"}       \* the call rejects: network or API error

Item(key, score) == [criterion_key |-> key, score |-> score]

ModelItems == <<Item("Significance", 4), Item("Approach", 3)>>

\* a JSON body: data.error, and data.items when hasItems
JsonBody(error, hasItems, items) ==
  [json |-> TRUE, error |-> error, hasItems |-> hasItems, items |-> items]

NotJsonBody == [json |-> FALSE, error |-> "", hasItems |-> FALSE, items |-> <<>>]

Returned(status, body) == [kind |-> "returned", status |-> status, body |-> body]

\* the handler's promise rejects: the error left the handler
Threw(message) == [kind |-> "threw", status |-> 500, body |-> NotJsonBody]

Failure(message) == Returned(500, JsonBody(message, TRUE, <<>>))

\* the try block: lines 59-73
TryBlock(body, keySet, upstream) ==
  IF ~keySet THEN Failure("missing credentials")
  ELSE IF body = "text_number" THEN Failure("text?.slice is not a function")
  ELSE CASE upstream = "rejected"      -> Failure("Connection error.")
         [] upstream = "not_json"      -> Failure("Unexpected token")
         [] upstream = "null_content"  -> Returned(200, JsonBody("", TRUE, <<>>))
         [] upstream = "no_items"      -> Returned(200, JsonBody("", FALSE, <<>>))
         [] upstream = "items"         -> Returned(200, JsonBody("", TRUE, ModelItems))

\* POST: req.text() and JSON.parse(body || '{}') come before the try block
POST(body, keySet, upstream) ==
  IF body = "unreadable" THEN Threw("body unreadable")
  ELSE IF body = "truncated" THEN Threw("Unexpected end of JSON input")
  ELSE IF body = "null" THEN Threw("Cannot destructure property 'text' of null")
  ELSE TryBlock(body, keySet, upstream)

\* a POST from any client
ClientPost(body, keySet, upstream) ==
  /\ exchange' = [handled |-> TRUE, body |-> body, outcome |-> POST(body, keySet, upstream)]
  /\ UNCHANGED <<text, scores, loading, pageAlert, calls>>
  /\ UNCHANGED evalVars

\* ---------------------------------------------------------------------
\* The project page: handleScore
\* ---------------------------------------------------------------------

\* most handleScore invocations in a behaviour
MaxCalls == 2

PageTexts == {"Background: ...", "Background: a mesh of sensors"}

ScoringFailed == "Scoring failed. Did you set OPENAI_API_KEY on Vercel?"

NullScores == [isNull |-> TRUE, items |-> <<>>]

Scores(items) == [isNull |-> FALSE, items |-> items]

\* a button without disabled={loading}
ButtonAlwaysEnabled == TRUE

\* <button onClick={handleScore} disabled={loading}>
ButtonEnabled == ~loading

Outstanding(i) == calls[i].pc \in {"fetch", "json", "alert"}

\* onChange of the draft textarea
SetText(t) ==
  /\ pageAlert = NoAlert
  /\ text' = t
  /\ UNCHANGED <<scores, loading, pageAlert, calls, exchange>>
  /\ UNCHANGED evalVars

\* a click on Evaluate: handleScore up to its first await
handleScore ==
  /\ pageAlert = NoAlert
  /\ ButtonEnabled
  /\ Len(calls) < MaxCalls
  /\ loading' = TRUE
  /\ scores' = NullScores
  /\ calls' = Append(calls, [pc |-> "fetch", response |-> Threw("")])
  /\ UNCHANGED <<text, pageAlert, exchange>>
  /\ UNCHANGED evalVars

\* the catch block: alert(...), which blocks until it is closed
Catch(i) ==
  /\ pageAlert' = ScoringFailed
  /\ calls' = [calls EXCEPT ![i].pc = "alert"]

\* fetch rejects: the request never reached the endpoint
FetchRejects(i) ==
  /\ pageAlert = NoAlert
  /\ calls[i].pc = "fetch"
  /\ Catch(i)
  /\ UNCHANGED <<text, scores, loading, exchange>>
  /\ UNCHANGED evalVars

\* the endpoint handles the request and fetch resolves with its response; an
\* error that left the handler reaches the page as a 500 without a JSON body
FetchResolves(i, keySet, upstream) ==
  /\ pageAlert = NoAlert
  /\ calls[i].pc = "fetch"
  /\ LET outcome == POST("text_object", keySet, upstream)
     IN  /\ exchange' = [handled |-> TRUE, body |-> "text_object", outcome |-> outcome]
         /\ calls' = [calls EXCEPT ![i].pc = "json", ![i].response = outcome]
  /\ UNCHANGED <<text, scores, loading, pageAlert>>
  /\ UNCHANGED evalVars

\* setScores(data.items || []), then the finally block
AfterJson(i) ==
  /\ scores' = Scores(IF calls[i].response.body.hasItems
                      THEN calls[i].response.body.items ELSE <<>>)
  /\ loading' = FALSE
  /\ calls' = [calls EXCEPT ![i].pc = "done"]
  /\ UNCHANGED pageAlert

\* await res.json() settles
JsonSettles(i) ==
  /\ pageAlert = NoAlert
  /\ calls[i].pc = "json"
  /\ IF calls[i].response.body.json
     THEN AfterJson(i)
     ELSE /\ Catch(i)
          /\ UNCHANGED <<scores, loading>>
  /\ UNCHANGED <<text, exchange>>
  /\ UNCHANGED evalVars

\* the alert closed, were setLoading(false) at the end of the try block only
DismissPageAlertNoFinally(i) ==
  /\ pageAlert # NoAlert
  /\ calls[i].pc = "alert"
  /\ pageAlert' = NoAlert
  /\ calls' = [calls EXCEPT ![i].pc = "failed"]
  /\ UNCHANGED <<text, scores, loading, exchange>>
  /\ UNCHANGED evalVars

\* the user closes the alert; the finally block runs
DismissPageAlert(i) ==
  /\ pageAlert # NoAlert
  /\ calls[i].pc = "alert"
  /\ pageAlert' = NoAlert
  /\ loading' = FALSE
  /\ calls' = [calls EXCEPT ![i].pc = "failed"]
  /\ UNCHANGED <<text, scores, exchange>>
  /\ UNCHANGED evalVars

\* ---------------------------------------------------------------------
\* Specifications
\* ---------------------------------------------------------------------

vars == <<evalVars, pageVars>>

InitEval ==
  /\ configText = "default"
  /\ ousdreText = "default_catalog"
  /\ config = DEFAULT_CONFIG
  /\ ousdre = DEFAULT_OUSDRE
  /\ proposalMeta = InitialMeta
  /\ ratings = <<>>
  /\ overallScore = OverallScore(DEFAULT_CONFIG.categories, <<>>)
  /\ mandatoryResults = MandatoryResults(DEFAULT_CONFIG, InitialMeta)
  /\ disqualified = Disqualified(DEFAULT_CONFIG, MandatoryResults(DEFAULT_CONFIG, InitialMeta))
  /\ alert = NoAlert
  /\ crashed = FALSE
  /\ phase = "D2P2"
  /\ milestones = InitialMilestones
  /\ download = NoDownload

InitPage ==
  /\ text = "Background: ..."
  /\ scores = NullScores
  /\ loading = FALSE
  /\ pageAlert = NoAlert
  /\ calls = <<>>
  /\ exchange = [handled |-> FALSE, body |-> "", outcome |-> Threw("")]

Init == InitEval /\ InitPage

\* what the model types into the fields the gate reads
GateEdits ==
  {<<"costTotal", 0>>, <<"costTotal", 1250000>>, <<"costTotal", 1250001>>,
   <<"popMonths", 0>>, <<"popMonths", 22>>,
   <<"tvPages", 0>>, <<"tvPages", 16>>,
   <<"cmSigned", TRUE>>, <<"cmSigned", FALSE>>,
   <<"rcfPresent", TRUE>>, <<"rcfPresent", FALSE>>}

\* and into the others
OtherEdits ==
  {<<"title", "Autonomous ISR Mesh">>, <<"company", "Acme Robotics, Inc.">>,
   <<"topicNumber", "AFX255-DPCSO3">>,
   <<"fwaPresent", TRUE>>, <<"vol7Present", TRUE>>, <<"powOk", TRUE>>}

\* the criteria the model rates
RatedIds == {"tech_risk", "team"}

\* the gate: metadata edits, uploads and config loads
NextGate ==
  \/ \E t \in GateTexts : SetConfigText(t)
  \/ handleLoadConfig
  \/ DismissAlert
  \/ \E e \in GateEdits : SetProposalMeta(e[1], e[2])
  \/ \E n \in FileNames : handleFileChange(n)

SpecGate == Init /\ [][NextGate]_vars

\* the two documents: typing and Apply
NextLoad ==
  \/ \E t \in ConfigTexts : SetConfigText(t)
  \/ \E t \in CatalogTexts : SetOusdReText(t)
  \/ handleLoadConfig
  \/ handleLoadOUSDRE
  \/ DismissAlert

SpecLoad == Init /\ [][NextLoad]_vars

\* the score: ratings and config loads
NextScore ==
  \/ \E t \in ScoreTexts : SetConfigText(t)
  \/ handleLoadConfig
  \/ DismissAlert
  \/ \E id \in RatedIds \cap CriterionIds(config), val \in ratingOptions : setRating(id, val)

SpecScore == Init /\ [][NextScore]_vars

\* what the model types and rates where gate, score and both documents meet
DerivedTexts == {"default", "relaxed", "overweight", "truncated"}

DerivedCatalogTexts == {"catalog_2025", "truncated"}

DerivedEdits ==
  {<<"costTotal", 0>>, <<"costTotal", 1250001>>,
   <<"cmSigned", TRUE>>, <<"rcfPresent", TRUE>>}

DerivedRatings == {"Good", "Poor"}

\* gate, score and documents together
NextDerived ==
  \/ \E t \in DerivedTexts : SetConfigText(t)
  \/ \E t \in DerivedCatalogTexts : SetOusdReText(t)
  \/ handleLoadConfig
  \/ handleLoadOUSDRE
  \/ DismissAlert
  \/ \E e \in DerivedEdits : SetProposalMeta(e[1], e[2])
  \/ \E val \in DerivedRatings : setRating("tech_risk", val)

SpecDerived == Init /\ [][NextDerived]_vars

\* what the model enters in a milestone editor
FlagEdits ==
  {<<"rdCentric", TRUE>>, <<"rdCentric", FALSE>>,
   <<"measurable", TRUE>>, <<"measurable", FALSE>>}

TextEdits == {<<"title", "Kickoff">>, <<"end", "2026-03-31">>}

MoreTextEdits == {<<"description", "Flight test.">>, <<"start", "2025-10-01">>}

\* the milestone card
NextPlan ==
  \/ addMilestone
  \/ \E k \in DOMAIN milestones, e \in FlagEdits \cup TextEdits :
       EditMilestone(k, e[1], e[2])

SpecPlan == Init /\ [][NextPlan]_vars

\* the export, after a few edits of each kind
NextExport ==
  \/ SetConfigText("relaxed")
  \/ SetOusdReText("no_version")
  \/ handleLoadConfig
  \/ handleLoadOUSDRE
  \/ SetProposalMeta("title", "Autonomous ISR Mesh")
  \/ setRating("tech_risk", "Good")
  \/ \E i \in DOMAIN config.phasesSupported : setPhase(config.phasesSupported[i])
  \/ EditMilestone(1, "measurable", FALSE)
  \/ ExportSnapshot

SpecExport == Init /\ [][NextExport]_vars

\* the project page and the endpoint
NextPage ==
  \/ \E t \in PageTexts : SetText(t)
  \/ handleScore
  \/ \E i \in DOMAIN calls : FetchRejects(i)
  \/ \E i \in DOMAIN calls, keySet \in BOOLEAN, upstream \in Upstreams :
       FetchResolves(i, keySet, upstream)
  \/ \E i \in DOMAIN calls : JsonSettles(i)
  \/ \E i \in DOMAIN calls : DismissPageAlert(i)
  \/ \E body \in Bodies, keySet \in BOOLEAN, upstream \in Upstreams :
       ClientPost(body, keySet, upstream)

SpecPage == Init /\ [][NextPage]_vars

\* a change of rulepack with a phase, ratings, metadata and milestones in place
SwitchTexts == {"default", "relaxed"}

SwitchRatedIds == {"tech_risk", "market"}

NextSwitch ==
  \/ \E t \in SwitchTexts : SetConfigText(t)
  \/ handleLoadConfig
  \/ \E id \in SwitchRatedIds \cap CriterionIds(config), val \in DerivedRatings :
       setRating(id, val)
  \/ \E i \in DOMAIN config.phasesSupported : setPhase(config.phasesSupported[i])
  \/ SetProposalMeta("title", "Autonomous ISR Mesh")
  \/ EditMilestone(1, "measurable", FALSE)

SpecSwitch == Init /\ [][NextSwitch]_vars

\* the project page alone: the steps of handleScore
FetchSettles ==
  \/ \E i \in DOMAIN calls : FetchRejects(i)
  \/ \E i \in DOMAIN calls, keySet \in BOOLEAN, upstream \in Upstreams :
       FetchResolves(i, keySet, upstream)

NextScoring ==
  \/ \E t \in PageTexts : SetText(t)
  \/ handleScore
  \/ FetchSettles
  \/ \E i \in DOMAIN calls : JsonSettles(i)
  \/ \E i \in DOMAIN calls : DismissPageAlert(i)

\* every promise settles (fetch resolves or rejects, the body is read or is
\* not), and the user closes an alert that is open
SpecScoring ==
  /\ Init
  /\ [][NextScoring]_vars
  /\ WF_vars(FetchSettles)
  /\ WF_vars(\E i \in DOMAIN calls : JsonSettles(i))
  /\ WF_vars(\E i \in DOMAIN calls : DismissPageAlert(i))

Next ==
  \/ NextPage
  \/ \E t \in ConfigTexts : SetConfigText(t)
  \/ \E t \in CatalogTexts : SetOusdReText(t)
  \/ handleLoadConfig
  \/ handleLoadOUSDRE
  \/ DismissAlert
  \/ \E e \in GateEdits \cup OtherEdits : SetProposalMeta(e[1], e[2])
  \/ \E n \in FileNames : handleFileChange(n)
  \/ \E id \in CriterionIds(config), val \in ratingOptions : setRating(id, val)
  \/ \E i \in DOMAIN config.phasesSupported : setPhase(config.phasesSupported[i])
  \/ addMilestone
  \/ \E k \in DOMAIN milestones, e \in FlagEdits \cup TextEdits \cup MoreTextEdits :
       EditMilestone(k, e[1], e[2])
  \/ ExportSnapshot

Spec == Init /\ [][Next]_vars

\* ---------------------------------------------------------------------
\* Properties
\* ---------------------------------------------------------------------

Mandatory(i) == config.mandatory[i]

\* C1: while the evaluator is on screen, disqualified is true iff some
\* criterion of config.mandatory is required and evaluates to not satisfied;
\* a failing criterion that is not required does not disqualify.
C1_DisqualifiedIffRequiredFails ==
  ~crashed =>
    (disqualified <=>
       \E i \in DOMAIN config.mandatory :
         Mandatory(i).required /\ ~CriterionOk(Mandatory(i), config, proposalMeta))

\* a criterion that is not required fails, and the proposal is eligible
C1_Witness ==
  /\ ~crashed
  /\ ~disqualified
  /\ \E i \in DOMAIN config.mandatory :
       ~Mandatory(i).required /\ mandatoryResults[Mandatory(i).id] = FALSE

CategoryWeightSum(categories) ==
  LET RECURSIVE SumFrom(_)
      SumFrom(i) == IF i > Len(categories) THEN 0 ELSE categories[i].weight + SumFrom(i + 1)
  IN  SumFrom(1)

\* C2 as claimed: the overall score lies in [0, 100] for every loaded config.
C2_ScoreInRange == ~crashed => overallScore \in 0..1000

\* C2 amended: the overall score lies in [0, 100] when the category weights
\* are non-negative and sum to at most 1, whatever the criterion weights.
C2_ScoreInRangeWhenCategoryWeightsFit ==
  (/\ ~crashed
   /\ \A i \in DOMAIN config.categories : config.categories[i].weight >= 0
   /\ CategoryWeightSum(config.categories) <= WeightScale)
  => overallScore \in 0..1000

\* criterion weights 1.2 + 1.2, both rated Excellent: the subtotal 2.4 is clamped
C2_Witness ==
  /\ ~crashed
  /\ config = ClampedConfig
  /\ DOMAIN ratings = {"tech_risk", "team"}
  /\ ratings["tech_risk"] = "Excellent"
  /\ ratings["team"] = "Excellent"

\* C3: an Apply whose text does not parse leaves config and catalog as they
\* were and opens an alert; a document changes only by a successful parse,
\* and then to the parsed value, whole.
C3_FailedParseKeepsDocuments ==
  [][/\ (handleLoadConfig /\ ~ParseConfigText(configText).ok)
          => (config' = config /\ ousdre' = ousdre /\ alert' = "Invalid solicitation JSON")
     /\ (handleLoadOUSDRE /\ ~ParseCatalogText(ousdreText).ok)
          => (config' = config /\ ousdre' = ousdre /\ alert' = "Invalid OUSD(R&E) JSON")
     /\ (alert = NoAlert /\ alert' # NoAlert) => (config' = config /\ ousdre' = ousdre)
     /\ (config' # config)
          => (ParseConfigText(configText).ok /\ config' = ParseConfigText(configText).value)
     /\ (ousdre' # ousdre)
          => (ParseCatalogText(ousdreText).ok /\ ousdre' = ParseCatalogText(ousdreText).value)
    ]_vars

\* a loaded rulepack survives an Apply of text that is not JSON
C3_Witness ==
  /\ alert = "Invalid solicitation JSON"
  /\ ~ParseConfigText(configText).ok
  /\ config = RelaxedConfig

\* C4 as claimed: whatever text is applied, the active config has a mandatory
\* list and a categories list, from which score and gate can be computed.
C4_AlwaysUsable ==
  /\ config.type = "object"
  /\ {"mandatory", "categories"} \subseteq config.fields

\* categories with two of its entries exchanged, and with two criteria of
\* one category exchanged
Swap(seq, i, j) ==
  [k \in DOMAIN seq |-> IF k = i THEN seq[j] ELSE IF k = j THEN seq[i] ELSE seq[k]]

Reorderings(categories) ==
  {Swap(categories, i, j) : i, j \in DOMAIN categories}
  \cup UNION {{[categories EXCEPT ![c].criteria = Swap(@, i, j)] :
                 i, j \in DOMAIN categories[c].criteria} : c \in DOMAIN categories}

FifthsOf(r) ==
  CASE r = "Excellent" -> 5 [] r = "Good" -> 4 [] r = "Acceptable" -> 3
    [] r = "Marginal" -> 2 [] r = "Poor" -> 1

RefSubtotal(criteria, rs) ==
  LET RECURSIVE SumFrom(_)
      SumFrom(i) ==
        IF i > Len(criteria) THEN 0
        ELSE FifthsOf(RatingOf(rs, criteria[i].id)) * criteria[i].weight + SumFrom(i + 1)
      sum == SumFrom(1)
  IN  IF sum < 0 THEN 0 ELSE IF sum > 5 * WeightScale THEN 5 * WeightScale ELSE sum

RefTotal(categories, rs) ==
  LET RECURSIVE SumFrom(_)
      SumFrom(i) ==
        IF i > Len(categories) THEN 0
        ELSE RefSubtotal(categories[i].criteria, rs) * categories[i].weight + SumFrom(i + 1)
  IN  SumFrom(1)

ReferenceScore(categories, rs) ==
  LET t == RefTotal(categories, rs)
  IN  IF t >= 0 THEN (t + 25) \div 50 ELSE -((25 - t) \div 50)

\* C9 as claimed: the overall score is the reference computation's.
C9_EqualsReference ==
  ~crashed => overallScore = ReferenceScore(config.categories, ratings)

\* C10: a mandatory criterion whose id is none of the five the code knows is
\* satisfied, whatever the metadata, its limit and its extractorKey, and a
\* disqualification is always owed to a required criterion with a known id.
C10_UnknownIdSatisfied ==
  ~crashed =>
    /\ \A i \in DOMAIN config.mandatory :
         Mandatory(i).id \notin KnownIds => mandatoryResults[Mandatory(i).id] = TRUE
    /\ disqualified =>
         \E i \in DOMAIN config.mandatory :
           /\ Mandatory(i).id \in KnownIds
           /\ Mandatory(i).required
           /\ mandatoryResults[Mandatory(i).id] = FALSE

\* a required criterion with an unknown id, whose limit the cost exceeds, and
\* the proposal is eligible
C10_Witness ==
  /\ ~crashed
  /\ ~disqualified
  /\ \E i \in DOMAIN config.mandatory :
       /\ Mandatory(i).id \notin KnownIds
       /\ Mandatory(i).required
       /\ Mandatory(i).extractorKey = "cost_total"
       /\ Mandatory(i).limit.present
       /\ proposalMeta.costTotal > Mandatory(i).limit.value

\* C5 as claimed: every POST ends in the parsed model response, or in status
\* 500 with {error, items: []}; no error leaves the handler.
C5_EveryPostAnswered ==
  exchange.handled =>
    /\ exchange.outcome.kind = "returned"
    /\ \/ exchange.outcome.status = 200
       \/ /\ exchange.outcome.status = 500
          /\ exchange.outcome.body.json
          /\ exchange.outcome.body.hasItems
          /\ exchange.outcome.body.items = <<>>

\* C6 as claimed: a scoring call that failed ends in the failure alert, with
\* nothing on screen; only a call that succeeded ends by showing its items.
C6_FailureReported ==
  \A i \in DOMAIN calls :
    /\ (calls[i].pc = "done") => calls[i].response.status = 200
    /\ (calls[i].pc \in {"alert", "failed"} /\ ~(\E j \in DOMAIN calls : j > i))
         => scores = NullScores

\* C7 as claimed: while a scoring request is outstanding the user can start
\* another.
C7_SecondCallPossible ==
  (\E i \in DOMAIN calls : Outstanding(i)) => ButtonEnabled

\* C7 amended: at most one scoring request is outstanding at a time (the
\* button is disabled from the click until the request has ended).
C7_AtMostOneOutstanding ==
  Cardinality({i \in DOMAIN calls : Outstanding(i)}) <= 1

\* a second request has been sent, after the first ended
C7_Witness ==
  /\ Len(calls) = 2
  /\ ~Outstanding(1)
  /\ Outstanding(2)

HasMandatory(id) == \E i \in DOMAIN config.mandatory : Mandatory(i).id = id

\* C11: with its cap configured, costCap is satisfied iff costTotal <=
\* costCapUSD, popCap iff popMonths <= maxPoPMonths, pages iff tvPages <=
\* techVolumeMaxPages; cmSigned and rcf are satisfied iff their flag is set.
\* Under the default config a cost of 1,180,000 and 14 pages are satisfied,
\* and an unchecked signed memorandum is unsatisfied and disqualifies.
C11_CapComparisons ==
  ~crashed =>
    /\ (HasMandatory("costCap") /\ Truthy(config.costCapUSD)) =>
         (mandatoryResults["costCap"] <=> proposalMeta.costTotal <= config.costCapUSD.value)
    /\ (HasMandatory("popCap") /\ Truthy(config.maxPoPMonths)) =>
         (mandatoryResults["popCap"] <=> proposalMeta.popMonths <= config.maxPoPMonths.value)
    /\ (HasMandatory("pages") /\ Truthy(config.techVolumeMaxPages)) =>
         (mandatoryResults["pages"] <=> proposalMeta.tvPages <= config.techVolumeMaxPages.value)
    /\ HasMandatory("cmSigned") => (mandatoryResults["cmSigned"] <=> proposalMeta.cmSigned)
    /\ HasMandatory("rcf") => (mandatoryResults["rcf"] <=> proposalMeta.rcfPresent)
    /\ config = DEFAULT_CONFIG =>
         /\ proposalMeta.costTotal = 1180000 => mandatoryResults["costCap"]
         /\ proposalMeta.tvPages = 14 => mandatoryResults["pages"]
         /\ ~proposalMeta.cmSigned => (~mandatoryResults["cmSigned"] /\ disqualified)

\* the default config, a cost equal to the cap after an upload set 14 pages,
\* and the memorandum unchecked
C11_Witness ==
  /\ ~crashed
  /\ config = DEFAULT_CONFIG
  /\ proposalMeta.costTotal = config.costCapUSD.value
  /\ proposalMeta.tvPages = 14
  /\ ~proposalMeta.cmSigned
  /\ mandatoryResults["costCap"]
  /\ mandatoryResults["pages"]
  /\ disqualified

\* C12: under the default categories, when every criterion is rated
\* Acceptable or not rated at all, the overall score is exactly 60.0.
C12_AllAcceptableIsSixty ==
  (/\ ~crashed
   /\ config.categories = DEFAULT_CONFIG.categories
   /\ \A id \in DOMAIN ratings : ratings[id] = "Acceptable")
    => overallScore = 600

\* two criteria have been rated, both Acceptable in the end, the others never
C12_Witness ==
  /\ ~crashed
  /\ config.categories = DEFAULT_CONFIG.categories
  /\ DOMAIN ratings = {"tech_risk", "team"}
  /\ \A id \in DOMAIN ratings : ratings[id] = "Acceptable"
  /\ overallScore = 600

\* C13: the derived values carry no hidden state.  While the evaluator is on
\* screen the mandatory-result map and the disqualified flag are those of the
\* current config and proposal metadata, and the overall score is that of the
\* current config and ratings, whatever operations led there.
C13_NoHiddenState ==
  ~crashed =>
    /\ mandatoryResults = MandatoryResults(config, proposalMeta)
    /\ disqualified = Disqualified(config, MandatoryResults(config, proposalMeta))
    /\ overallScore = OverallScore(config.categories, ratings)

\* a rating was given under one config and another config was loaded after
C13_Witness ==
  /\ ~crashed
  /\ config = OverweightConfig
  /\ "tech_risk" \in DOMAIN ratings
  /\ proposalMeta.cmSigned
  /\ overallScore # OverallScore(DEFAULT_CONFIG.categories, ratings)

\* C14: a milestone is labelled "Strong" iff both its rdCentric and its
\* measurable flag are true, and "Needs Work" otherwise; two milestones with
\* the same flags have the same label whatever their title, description and
\* dates; the milestone Add Milestone appends is "Needs Work".
C14_StrongIffBothFlags ==
  /\ [](\A i \in DOMAIN milestones :
          /\ MilestoneLabel(milestones[i]) \in {"Strong", "Needs Work"}
          /\ MilestoneLabel(milestones[i]) = "Strong"
               <=> (milestones[i].rdCentric = TRUE /\ milestones[i].measurable = TRUE)
          /\ \A j \in DOMAIN milestones :
               (/\ milestones[i].rdCentric = milestones[j].rdCentric
                /\ milestones[i].measurable = milestones[j].measurable)
                 => MilestoneLabel(milestones[i]) = MilestoneLabel(milestones[j]))
  /\ [][Len(milestones') > Len(milestones)
          => MilestoneLabel(milestones'[Len(milestones')]) = "Needs Work"]_vars

\* an added milestone has had its title and end date edited and is still
\* "Needs Work"; another with both flags set and other texts is "Strong"
C14_Witness ==
  /\ Len(milestones) = 3
  /\ milestones[3].title = "Kickoff"
  /\ milestones[3].end = "2026-03-31"
  /\ milestones[3].rdCentric /\ ~milestones[3].measurable
  /\ MilestoneLabel(milestones[3]) = "Needs Work"
  /\ MilestoneLabel(milestones[1]) = "Strong"

\* C15: the milestone list is append-only.  No step shortens it; a step that
\* lengthens it adds exactly one entry, at the end, and leaves the others as
\* they were; in every step the entries already present keep their ids and
\* their positions.
C15_AppendOnly ==
  [][/\ Len(milestones') >= Len(milestones)
     /\ Len(milestones') > Len(milestones) =>
          /\ Len(milestones') = Len(milestones) + 1
          /\ SubSeq(milestones', 1, Len(milestones)) = milestones
     /\ \A i \in DOMAIN milestones : milestones'[i].id = milestones[i].id
    ]_vars

\* a milestone was added and the first of the list was edited afterwards
C15_Witness ==
  /\ Len(milestones) = 3
  /\ milestones[1].title = "Kickoff"
  /\ ~milestones[1].rdCentric
  /\ <<milestones[1].id, milestones[2].id, milestones[3].id>> = <<"m1", "m2", "m3">>

\* C16: the two documents are independent and the catalog is display-only.
\* Applying a catalog leaves the config, the overall score, the mandatory
\* results and the disqualified flag as they were; applying a config leaves
\* the catalog as it was.
C16_DocumentsIndependent ==
  [][/\ handleLoadOUSDRE =>
          /\ config' = config
          /\ overallScore' = overallScore
          /\ mandatoryResults' = mandatoryResults
          /\ disqualified' = disqualified
     /\ handleLoadConfig => ousdre' = ousdre
    ]_vars

\* both documents have been replaced, with a rating and metadata entered
C16_Witness ==
  /\ ~crashed
  /\ ousdre = Catalog2025
  /\ config = RelaxedConfig
  /\ "tech_risk" \in DOMAIN ratings
  /\ proposalMeta.costTotal = 1250001

\* C17: gate and score do not read each other's inputs.  A step that changes
\* a rating leaves the mandatory results and the disqualified flag as they
\* were; a step that changes the proposal metadata, the flag with it or not,
\* leaves the overall score as it was.
C17_GateAndScoreIndependent ==
  [][/\ ratings' # ratings =>
          /\ mandatoryResults' = mandatoryResults
          /\ disqualified' = disqualified
     /\ proposalMeta' # proposalMeta => overallScore' = overallScore
    ]_vars

\* the proposal was disqualified, is eligible now, and has a rating
C17_Witness ==
  /\ ~crashed
  /\ config = DEFAULT_CONFIG
  /\ ~disqualified
  /\ "tech_risk" \in DOMAIN ratings
  /\ ratings["tech_risk"] = "Poor"

\* C18: an export changes no evaluator state, and the snapshot it writes holds
\* the state of that moment: config meta, phase, proposal metadata, mandatory
\* results, disqualified flag, ratings, overall score, milestones and catalog
\* version; its disqualified flag and overall score are those derived from
\* the exported metadata and ratings under the active config.
C18_ExportIsSnapshot ==
  [][ExportSnapshot =>
       /\ UNCHANGED <<inputVars, derivedVars, alert, crashed, phase, milestones>>
       /\ LET doc == download'.json.value
          IN  /\ doc.configMeta = config.meta
              /\ doc.phase = phase
              /\ doc.proposalMeta = proposalMeta
              /\ doc.mandatoryResults = mandatoryResults
              /\ doc.disqualified = disqualified
              /\ doc.ratings = ratings
              /\ doc.overallScore = overallScore
              /\ doc.milestones = milestones
              /\ "version" \in ousdre.fields =>
                   /\ "ousdreVersion" \in download'.json.keys
                   /\ doc.ousdreVersion = ousdre.version
              /\ SnapshotKeys \ {"ousdreVersion"} \subseteq download'.json.keys
              /\ doc.mandatoryResults = MandatoryResults(config, doc.proposalMeta)
              /\ doc.disqualified =
                   Disqualified(config, MandatoryResults(config, doc.proposalMeta))
              /\ doc.overallScore = OverallScore(config.categories, doc.ratings)
    ]_vars

\* a snapshot of a disqualified proposal with a rating was exported, and the
\* state has moved on since
C18_Witness ==
  /\ download.name # ""
  /\ download.json.value.disqualified
  /\ download.json.value.overallScore # 600
  /\ download.json.value.phase = "Phase II"
  /\ download.name = "readiness_Autonomous_ISR_Mesh.json"
  /\ ~disqualified

\* the config with the limit and extractorKey of the mandatory criteria in
\* positions S set to lim and key
WithLimits(cfg, S, lim, key) ==
  [cfg EXCEPT !.mandatory =
     [i \in DOMAIN cfg.mandatory |->
        IF i \in S THEN [cfg.mandatory[i] EXCEPT !.limit = lim, !.extractorKey = key]
        ELSE cfg.mandatory[i]]]

LimitChoices == {None, Some(0), Some(1), Some(2000000)}

KeyChoices == {"cost_total", "unknown_key"}

\* C19: the gate ignores limit and extractorKey.  In every state, a config
\* that differs from the active one only in the limit or extractorKey of
\* some mandatory criteria gives the same mandatory-result map and the same
\* disqualified flag for the current proposal metadata.
C19_LimitAndKeyIgnored ==
  ~crashed =>
    \A S \in SUBSET DOMAIN config.mandatory, lim \in LimitChoices, key \in KeyChoices :
      LET other == WithLimits(config, S, lim, key)
      IN  /\ MandatoryResults(other, proposalMeta) = mandatoryResults
          /\ Disqualified(other, MandatoryResults(other, proposalMeta)) = disqualified

\* the page count exceeds the limit written on the pages criterion itself,
\* and the criterion is satisfied
C19_Witness ==
  /\ ~crashed
  /\ \E i \in DOMAIN config.mandatory :
       /\ Mandatory(i).id = "pages"
       /\ Mandatory(i).limit.present
       /\ proposalMeta.tvPages > Mandatory(i).limit.value
       /\ mandatoryResults["pages"]

CapOf(id) ==
  CASE id = "costCap" -> config.costCapUSD
    [] id = "popCap"  -> config.maxPoPMonths
    [] id = "pages"   -> config.techVolumeMaxPages

Uncapped(id) ==
  /\ id \in {"costCap", "popCap", "pages"}
  /\ (~CapOf(id).present \/ CapOf(id).value = 0)

\* C20: a cap criterion whose config-level cap is absent or zero is satisfied
\* whatever the metadata, so it never disqualifies: a disqualified proposal
\* fails some required criterion that is not a cap criterion without a cap.
C20_NoCapNoFailure ==
  ~crashed =>
    /\ \A i \in DOMAIN config.mandatory :
         Uncapped(Mandatory(i).id) => mandatoryResults[Mandatory(i).id] = TRUE
    /\ disqualified =>
         \E i \in DOMAIN config.mandatory :
           /\ ~Uncapped(Mandatory(i).id)
           /\ Mandatory(i).required
           /\ mandatoryResults[Mandatory(i).id] = FALSE

\* required popCap and pages criteria, no month cap and a page cap of 0, 22
\* months and 16 pages entered, and the proposal is eligible
C20_Witness ==
  /\ ~crashed
  /\ \E i, j \in DOMAIN config.mandatory :
       /\ Mandatory(i).id = "popCap" /\ Mandatory(i).required
       /\ Mandatory(j).id = "pages" /\ Mandatory(j).required
  /\ ~config.maxPoPMonths.present
  /\ config.techVolumeMaxPages = Some(0)
  /\ proposalMeta.popMonths = 22
  /\ proposalMeta.tvPages = 16
  /\ ~disqualified

\* the n-th scoring request is outstanding
Started(n) == IF n \in DOMAIN calls THEN Outstanding(n) ELSE FALSE

\* the n-th scoring request has ended and loading is false
Ended(n) == IF n \in DOMAIN calls THEN ~Outstanding(n) /\ ~loading ELSE FALSE

\* C21: loading is true for as long as a scoring request is outstanding, and
\* after every request it returns to false, whether the request succeeded,
\* was answered with an error or threw: the Evaluate button is enabled again.
C21_LoadingEventuallyFalse ==
  /\ []((\E i \in DOMAIN calls : Outstanding(i)) => (loading /\ ~ButtonEnabled))
  /\ loading ~> (~loading /\ ButtonEnabled)
  /\ \A n \in 1..MaxCalls : Started(n) ~> Ended(n)

\* one request ended in the catch block and another in setScores, and the
\* button is enabled
C21_Witness ==
  /\ \E i, j \in DOMAIN calls : calls[i].pc = "failed" /\ calls[j].pc = "done"
  /\ ~loading
  /\ ButtonEnabled

\* C22: the ids of a list of N milestones are m1..mN, pairwise distinct, so
\* an edit made in the editor of one milestone changes that field of that
\* milestone and nothing else in the list.
C22_DistinctIds ==
  /\ [](/\ \A i \in DOMAIN milestones : milestones[i].id = "m" \o ToString(i)
        /\ \A i, j \in DOMAIN milestones :
             milestones[i].id = milestones[j].id => i = j)
  /\ [][milestones' # milestones =>
          \A k \in DOMAIN milestones, e \in FlagEdits \cup TextEdits :
            milestones' = EditedMilestones(milestones, milestones[k].id, e[1], e[2]) =>
              /\ DOMAIN milestones' = DOMAIN milestones
              /\ milestones'[k] = [milestones[k] EXCEPT ![e[1]] = e[2]]
              /\ \A i \in DOMAIN milestones \ {k} : milestones'[i] = milestones[i]
       ]_vars

\* of three milestones the second alone has a new title and the third alone
\* has been made measurable after the first was made not measurable
C22_Witness ==
  /\ Len(milestones) = 3
  /\ milestones[2].title = "Kickoff"
  /\ milestones[1].title # "Kickoff"
  /\ milestones[3].title # "Kickoff"
  /\ milestones[3].measurable
  /\ ~milestones[1].measurable
  /\ milestones[2].measurable

\* the ratings of the criteria the active config has
ActiveRatings ==
  [id \in DOMAIN ratings \cap CriterionIds(config) |-> ratings[id]]

PhaseOffered == \E i \in DOMAIN config.phasesSupported : config.phasesSupported[i] = phase

\* C23: applying a config changes only the config.  The phase, the ratings,
\* the proposal metadata and the milestones stay as they were, also when the
\* phase is not among the new phasesSupported or a rating names a criterion
\* the new config lacks; and ratings of criteria absent from the active
\* config have no effect on the overall score.
C23_ConfigLoadChangesOnlyConfig ==
  /\ [][handleLoadConfig =>
          /\ phase' = phase
          /\ ratings' = ratings
          /\ proposalMeta' = proposalMeta
          /\ milestones' = milestones
          /\ ousdre' = ousdre
       ]_vars
  /\ [](~crashed => overallScore = OverallScore(config.categories, ActiveRatings))

\* a config was applied that offers neither the selected phase nor a rated
\* criterion
C23_Witness ==
  /\ ~crashed
  /\ config = RelaxedConfig
  /\ ~PhaseOffered
  /\ "market" \in DOMAIN ratings
  /\ "market" \notin CriterionIds(config)
  /\ ~milestones[1].measurable
  /\ proposalMeta.title # ""

\* the ratings from worst to best
RatingRank(r) ==
  CASE r = "Poor" -> 1 [] r = "Marginal" -> 2 [] r = "Acceptable" -> 3
    [] r = "Good" -> 4 [] r = "Excellent" -> 5

\* the rating the score uses for a criterion: "Acceptable" when there is none
EffectiveRating(rs, id) == IF id \in DOMAIN rs THEN rs[id] ELSE "Acceptable"

NonNegativeWeights(cfg) ==
  \A i \in DOMAIN cfg.categories :
    /\ cfg.categories[i].weight >= 0
    /\ \A j \in DOMAIN cfg.categories[i].criteria :
         cfg.categories[i].criteria[j].weight >= 0

\* C24: under a config whose category and criterion weights are all
\* non-negative the overall score is monotone in the ratings.  A step that
\* raises the rating of one criterion does not lower the score, and a step
\* that lowers it does not raise the score.
C24_MonotoneInRatings ==
  [][(/\ ~crashed /\ ~crashed'
      /\ config' = config
      /\ NonNegativeWeights(config)
      /\ ratings' # ratings)
       => \A id \in DOMAIN ratings' :
            LET old == RatingRank(EffectiveRating(ratings, id))
                new == RatingRank(EffectiveRating(ratings', id))
            IN  /\ new > old => overallScore' >= overallScore
                /\ new < old => overallScore' <= overallScore
    ]_vars

\* under weights that are all non-negative and sum to more than 1, one
\* criterion has been rated up and another down
C24_Witness ==
  /\ ~crashed
  /\ config = OverweightConfig
  /\ NonNegativeWeights(config)
  /\ DOMAIN ratings = {"tech_risk", "team"}
  /\ ratings["tech_risk"] = "Excellent"
  /\ ratings["team"] = "Marginal"

====
